---------------------------- MODULE Spec2Model ----------------------------
(***************************************************************************)
(* Amortized-cost analyzer (bb-staff): the Cost Model, the Duration        *)
(* Optimizer and the Fee Inverter of extract-tooltip-data.js (the CLI      *)
(* script, src/unnamed/part_000) and of the chart components.              *)
(*                                                                         *)
(* Numbers.  The program computes in IEEE doubles.  Here a money amount is *)
(* an integer count of ticks, Frac ticks to one currency unit; a power     *)
(* (1+g)^n is an integer count of 1/PScale; a growth factor is an integer  *)
(* count of 1/GDen (0.0025 = 1/400, 0.01 = 4/400).  Every arithmetic       *)
(* operation rounds toward minus infinity where a double rounds to         *)
(* nearest, and a power above PowCap is Infinity, as a double above        *)
(* 1.8e308 is.  Infinity compares as in JavaScript: it is greater than     *)
(* every finite number and not less than itself.                           *)
(***************************************************************************)
EXTENDS Integers, Sequences, FiniteSets, TLC

\* ---------------------------------------------------------------- numbers
Frac == 4
PScale == 10000
PowCap == 100
GDen == 400
Infinity == 2000000000

\* NaN, the value of 0 / 0: it is neither less nor greater than any number
NaN == Infinity + 1

Money(units) == units * Frac

\* floor(a * b / c) for a, b >= 0, c > 0 without leaving 32 bits
MulDiv(a, b, c) == (a \div c) * b + ((a % c) * b) \div c

Abs(x) == IF x < 0 THEN -x ELSE x

\* ---------------------------------------------------------- program constants
DMaxScript == 150
DMaxChart == 500
MaxIter == 50
LowBound == 1000
HighBound == 1000000
Tolerance == 1
NearLow == 1001

\* ---------------------------------------------------------------- growth
\* growthFactor(level) = 0.01 + (level - 1) * 0.0025, in units of 1/GDen
growthFactor(lvl) == 4 + (lvl - 1) * 1

\* Math.pow(1 + g, n) in units of 1/PScale; above PowCap it is Infinity
PowStep(p, g) ==
  IF p = Infinity THEN Infinity
  ELSE LET q == p + MulDiv(p, g, GDen)
       IN  IF q > PowCap * PScale THEN Infinity ELSE q

\* acc extended by its next k powers (the recursion halves k: a loop of k steps)
RECURSIVE PowSeq(_, _, _)
PowSeq(acc, g, k) ==
  IF k = 0 THEN acc
  ELSE IF k = 1 THEN Append(acc, PowStep(acc[Len(acc)], g))
  ELSE LET first == PowSeq(acc, g, k \div 2)
       IN  IF Len(first) > 0 THEN PowSeq(first, g, k - k \div 2) ELSE first

\* the levels the model runs on, and the powers (1+g)^0 .. (1+g)^(DMaxChart+1)
\* of each, PowTable[level][n + 1] = Math.pow(1 + growthFactor(level), n)
MaxLevel == 4
Levels == 1..MaxLevel

\* the level at which the growth rate is exactly 0: 0.01 + (level - 1) * 0.0025
\* is 0 at level -3, which the script's command line and a typed-in level field
\* can hold
ZeroGrowthLevel == CHOOSE l \in (-10)..0 : growthFactor(l) = 0

PowTable ==
  [l \in Levels \cup {ZeroGrowthLevel} |->
     PowSeq(<<PScale>>, growthFactor(l), DMaxChart + 1)]
MathPow(lvl, n) == PowTable[lvl][n + 1]

\* ------------------------------------------------ CLI script (part_000)
\* variant: the hiring cost enters the numerator with the wrong sign
Script_amortizedCost_minus(hiringCostInput, sal, lvl, T) ==
  LET pw == MathPow(lvl, T + 1)
  IN  IF pw = Infinity THEN Infinity
      ELSE LET growthTerm == MulDiv(pw - PScale, GDen, growthFactor(lvl))
           IN  (MulDiv(growthTerm, sal, PScale) - hiringCostInput) \div T

\* variant: Math.pow(1 + g, T) for Math.pow(1 + g, T + 1), a sum of T terms
Script_amortizedCost_shortSum(hiringCostInput, sal, lvl, T) ==
  LET pw == MathPow(lvl, T)
  IN  IF growthFactor(lvl) = 0 THEN NaN
      ELSE IF pw = Infinity THEN Infinity
      ELSE LET growthTerm == MulDiv(pw - PScale, GDen, growthFactor(lvl))
           IN  (hiringCostInput + MulDiv(growthTerm, sal, PScale)) \div T

\* one pass of the loop body of calculateOptimalAmortizedCost, lines 23-24; at
\* g = 0 the growthTerm is (1 - 1) / 0 = NaN, and so is the cost
Script_amortizedCost(hiringCostInput, sal, lvl, T) ==
  LET pw == MathPow(lvl, T + 1)
  IN  IF growthFactor(lvl) = 0 THEN NaN
      ELSE IF pw = Infinity THEN Infinity
      ELSE LET growthTerm == MulDiv(pw - PScale, GDen, growthFactor(lvl))
           IN  (hiringCostInput + MulDiv(growthTerm, sal, PScale)) \div T

\* variant: the comparison of line 26 turned around
Script_keep_greater(amortizedCost, minCost) == amortizedCost > minCost

Script_keep(amortizedCost, minCost) ==
  amortizedCost # NaN /\ amortizedCost < minCost

\* the loop "for (let T = from; T <= to; T++)" of lines 22-30, run in order from
\* the pair best = (minCost, optimalDuration) (the recursion halves the range)
RECURSIVE Script_scan(_, _, _, _, _, _)
Script_scan(hiringCostInput, sal, lvl, from, to, best) ==
  IF from > to THEN best
  ELSE IF from = to
  THEN LET amortizedCost == Script_amortizedCost(hiringCostInput, sal, lvl, from)
       IN  IF Script_keep(amortizedCost, best.cost)
           THEN [cost |-> amortizedCost, duration |-> from]
           ELSE best
  ELSE LET half == (from + to) \div 2
           first == Script_scan(hiringCostInput, sal, lvl, from, half, best)
       IN  IF first.duration >= 1
           THEN Script_scan(hiringCostInput, sal, lvl, half + 1, to, first)
           ELSE first

Script_calculateOptimalAmortizedCost(hiringCostInput, sal, lvl) ==
  Script_scan(hiringCostInput, sal, lvl, 1, DMaxScript,
              [cost |-> Infinity, duration |-> 1])

\* ------------------------------------------- MaxHiringFeeChart.tsx
\* variant: the closed form of a sum one term short, exponent T for T + 1
Chart_maintenanceSum_shortSum(sal, lvl, T) ==
  LET pw == MathPow(lvl, T)
  IN  IF pw = Infinity THEN Infinity
      ELSE MulDiv(MulDiv(pw - PScale, sal, PScale), GDen, growthFactor(lvl))

\* salary * (Math.pow(1 + g, T + 1) - 1) / g, lines 68 and 89
Chart_maintenanceSum(sal, lvl, T) ==
  LET pw == MathPow(lvl, T + 1)
  IN  IF pw = Infinity THEN Infinity
      ELSE MulDiv(MulDiv(pw - PScale, sal, PScale), GDen, growthFactor(lvl))

\* variant: the hiring cost subtracted from the maintenance sum
Chart_amortizedCost_minus(hiringCost, maintenanceSum, T) ==
  IF maintenanceSum = Infinity THEN Infinity
  ELSE (maintenanceSum - hiringCost) \div T

\* (hiringCost + maintenanceSum) / T, lines 69 and 92
Chart_amortizedCost(hiringCost, maintenanceSum, T) ==
  IF maintenanceSum = Infinity THEN Infinity
  ELSE (hiringCost + maintenanceSum) \div T

\* variant: a non-strict comparison at line 71, so that a later tie wins
Chart_keep_ties(amortizedCost, minCost) == amortizedCost <= minCost

Chart_keep(amortizedCost, minCost) == amortizedCost < minCost

\* the loop "for (let T = from; T <= to; T++)" of lines 67-75, run in order from
\* best = (minCost, bestT)
RECURSIVE Chart_scan(_, _, _, _, _, _)
Chart_scan(hiringCost, sal, lvl, from, to, best) ==
  IF from > to THEN best
  ELSE IF from = to
  THEN LET amortizedCost ==
             Chart_amortizedCost(hiringCost, Chart_maintenanceSum(sal, lvl, from), from)
       IN  IF Chart_keep(amortizedCost, best.minCost)
           THEN [minCost |-> amortizedCost, bestT |-> from]
           ELSE best
  ELSE LET half == (from + to) \div 2
           first == Chart_scan(hiringCost, sal, lvl, from, half, best)
       IN  IF first.bestT >= 1
           THEN Chart_scan(hiringCost, sal, lvl, half + 1, to, first)
           ELSE first

Chart_findOptimalDuration(hiringCost, sal, lvl) ==
  IF growthFactor(lvl) = 0 THEN 100
  ELSE Chart_scan(hiringCost, sal, lvl, 1, DMaxChart,
                  [minCost |-> Infinity, bestT |-> 1]).bestT

Chart_calculateOptimalAmortizedCost(hiringCost, sal, lvl) ==
  LET optimalDuration == Chart_findOptimalDuration(hiringCost, sal, lvl)
      maintenanceSum ==
        IF growthFactor(lvl) = 0 THEN sal * (optimalDuration + 1)
        ELSE Chart_maintenanceSum(sal, lvl, optimalDuration)
  IN  [cost |-> Chart_amortizedCost(hiringCost, maintenanceSum, optimalDuration),
       duration |-> optimalDuration]

\* ------------------------- AmortizedCostChart.tsx, SalaryComparisonChart.tsx
\* "number | null" is a set: {} is null, {v} is the number v
Null == {}
Some(v) == {v}
ValueOf(opt) == CHOOSE v \in opt : TRUE

\* floor(a * b / c) for any a, b and c > 0
SignedMulDiv(a, b, c) ==
  IF b >= 0 THEN MulDiv(a, b, c) ELSE MulDiv(-a, -b, c)

\* points, a sequence of [salary, cost], with p inserted before the first point
\* of greater salary: one step of the stable sort of line 102
RECURSIVE InsertSorted(_, _)
InsertSorted(p, sorted) ==
  IF sorted = <<>> THEN <<p>>
  ELSE IF Head(sorted).salary - p.salary > 0 THEN <<p>> \o sorted
  ELSE <<Head(sorted)>> \o InsertSorted(p, Tail(sorted))

RECURSIVE SortBySalary(_)
SortBySalary(points) ==
  IF points = <<>> THEN <<>>
  ELSE InsertSorted(points[Len(points)], SortBySalary(SubSeq(points, 1, Len(points) - 1)))

\* variant: the slope taken with the opposite sign
AlongSlope_mirrored(p1, p2, delta) ==
  LET slope == SignedMulDiv(p1.cost - p2.cost, PScale, p2.salary - p1.salary)
  IN  SignedMulDiv(slope, delta, PScale)

\* slope * (startingSalary - p.salary) with slope = (p2.cost - p1.cost) /
\* (p2.salary - p1.salary), lines 112-113 and 120-121
AlongSlope(p1, p2, delta) ==
  LET slope == SignedMulDiv(p2.cost - p1.cost, PScale, p2.salary - p1.salary)
  IN  SignedMulDiv(slope, delta, PScale)

\* variant: the ratio measured from the upper sample
AlongRatio_fromUpper(p1, p2, startingSalary) ==
  LET ratio == MulDiv(p2.salary - startingSalary, PScale, p2.salary - p1.salary)
  IN  SignedMulDiv(p2.cost - p1.cost, ratio, PScale)

\* ratio * (p2.cost - p1.cost) with ratio = (startingSalary - p1.salary) /
\* (p2.salary - p1.salary), lines 131-132
AlongRatio(p1, p2, startingSalary) ==
  LET ratio == MulDiv(startingSalary - p1.salary, PScale, p2.salary - p1.salary)
  IN  SignedMulDiv(p2.cost - p1.cost, ratio, PScale)

\* variant: points.slice(1).sort(...), the caller's first point left out
SpreadSort_withoutFirst(points) ==
  [sortedPoints |-> SortBySalary(Tail(points)), points |-> points]

\* variant: points.sort(...), which sorts the caller's array itself
SpreadSort_inPlace(points) ==
  [sortedPoints |-> SortBySalary(points), points |-> SortBySalary(points)]

\* const sortedPoints = [...points].sort((a, b) => a.salary - b.salary), line
\* 102: the sorted copy, and the caller's array after the statement
SpreadSort(points) ==
  [sortedPoints |-> SortBySalary(points), points |-> points]

\* variant: the first point of a greater salary taken for the match
ExactMatch_greater(sortedPoints, startingSalary) ==
  LET matches == {i \in 1..Len(sortedPoints) :
                    sortedPoints[i].salary > startingSalary}
  IN  IF matches = {} THEN Null
      ELSE Some(sortedPoints[CHOOSE i \in matches : \A j \in matches : i <= j])

\* sortedPoints.find(p => p.salary === salary), line 105: Null, or Some(point)
ExactMatch(sortedPoints, startingSalary) ==
  LET matches == {i \in 1..Len(sortedPoints) :
                    sortedPoints[i].salary = startingSalary}
  IN  IF matches = {} THEN Null
      ELSE Some(sortedPoints[CHOOSE i \in matches : \A j \in matches : i <= j])

interpolateHiringCost(startingSalary, points) ==
  IF Len(points) = 0 THEN Null
  ELSE IF Len(points) = 1 THEN Some(points[1].cost)
  ELSE
    LET sortedPoints == SpreadSort(points).sortedPoints
        n == Len(sortedPoints)
        exactMatch == ExactMatch(sortedPoints, startingSalary)
        between == {i \in 1..(n - 1) :
                      /\ startingSalary >= sortedPoints[i].salary
                      /\ startingSalary <= sortedPoints[i + 1].salary}
    IN  IF exactMatch # Null
        THEN Some(ValueOf(exactMatch).cost)
        ELSE IF startingSalary < sortedPoints[1].salary /\ n >= 2
        THEN Some(sortedPoints[1].cost
                  + AlongSlope(sortedPoints[1], sortedPoints[2],
                               startingSalary - sortedPoints[1].salary))
        ELSE IF startingSalary > sortedPoints[n].salary /\ n >= 2
        THEN Some(sortedPoints[n].cost
                  + AlongSlope(sortedPoints[n - 1], sortedPoints[n],
                               startingSalary - sortedPoints[n].salary))
        ELSE IF between # {}
        THEN LET i == CHOOSE k \in between : \A j \in between : k <= j
             IN  Some(sortedPoints[i].cost
                      + AlongRatio(sortedPoints[i], sortedPoints[i + 1], startingSalary))
        ELSE Null

\* hiring data: [level -> [salary in currency units -> Null or Some(cost)]]
\* the keys of an object in the order Object.entries lists them: ascending
RECURSIVE KeysAscending(_)
KeysAscending(keys) ==
  IF keys = {} THEN <<>>
  ELSE LET k == CHOOSE x \in keys : \A y \in keys : x <= y
       IN  <<k>> \o KeysAscending(keys \ {k})

RECURSIVE PointsOf(_, _)
PointsOf(salaryData, keys) ==
  IF keys = <<>> THEN <<>>
  ELSE LET rest == PointsOf(salaryData, Tail(keys))
       IN  IF salaryData[Head(keys)] = Null THEN rest
           ELSE <<[salary |-> Money(Head(keys)),
                   cost |-> ValueOf(salaryData[Head(keys)])]>> \o rest

\* hiringFormula.parameters: [level with at least one point -> its points]
generateHiringFormula(data) ==
  LET pts(l) == PointsOf(data[l], KeysAscending(DOMAIN data[l]))
  IN  [l \in {k \in DOMAIN data : Len(pts(k)) >= 1} |-> pts(l)]

MinHiringCost == 1000

\* variant: the interpolated value returned without Math.max(1000, .)
Chart_hiringCost_noFloor(startingSalary, lvl, formula) ==
  IF lvl \notin DOMAIN formula \/ Len(formula[lvl]) = 0 THEN Money(MinHiringCost)
  ELSE LET interpolated == interpolateHiringCost(startingSalary, formula[lvl])
       IN  IF interpolated # Null THEN ValueOf(interpolated)
           ELSE Money(MinHiringCost)

\* variant: a level without points costs nothing
Chart_hiringCost_noFallback(startingSalary, lvl, formula) ==
  IF lvl \notin DOMAIN formula \/ Len(formula[lvl]) = 0 THEN 0
  ELSE LET interpolated == interpolateHiringCost(startingSalary, formula[lvl])
       IN  IF interpolated # Null
           THEN (IF ValueOf(interpolated) > Money(MinHiringCost)
                 THEN ValueOf(interpolated) ELSE Money(MinHiringCost))
           ELSE Money(MinHiringCost)

\* hiringCost, lines 164-173
Chart_hiringCost(startingSalary, lvl, formula) ==
  IF lvl \notin DOMAIN formula \/ Len(formula[lvl]) = 0 THEN Money(MinHiringCost)
  ELSE LET interpolated == interpolateHiringCost(startingSalary, formula[lvl])
       IN  IF interpolated # Null
           THEN (IF ValueOf(interpolated) > Money(MinHiringCost)
                 THEN ValueOf(interpolated) ELSE Money(MinHiringCost))
           ELSE Money(MinHiringCost)

calculateAmortizedCost(S, T, lvl, hiringFormula) ==
  LET g == growthFactor(lvl)
      h == Chart_hiringCost(S, lvl, hiringFormula)
  IN  IF g = 0 THEN (h + S * (T + 1)) \div T
      ELSE Chart_amortizedCost(h, Chart_maintenanceSum(S, lvl, T), T)

Minimum_keep(cost, minCost) == cost < minCost

\* the loop "for (let t = from; t <= to; t++)" of lines 207-213, run in order
\* from best = (minCost, minWeek)
RECURSIVE Minimum_scan(_, _, _, _, _, _)
Minimum_scan(S, lvl, hiringFormula, from, to, best) ==
  IF from > to THEN best
  ELSE IF from = to
  THEN LET cost == calculateAmortizedCost(S, from, lvl, hiringFormula)
       IN  IF Minimum_keep(cost, best.cost)
           THEN [week |-> from, cost |-> cost]
           ELSE best
  ELSE LET half == (from + to) \div 2
           first == Minimum_scan(S, lvl, hiringFormula, from, half, best)
       IN  IF first.week >= 1
           THEN Minimum_scan(S, lvl, hiringFormula, half + 1, to, first)
           ELSE first

\* variant: the guard of line 194 turned around
findAmortizedCostMinimum_absent(S, lvl, hiringFormula) ==
  IF growthFactor(lvl) # 0 THEN Null
  ELSE Some([week |-> 1, cost |-> calculateAmortizedCost(S, 1, lvl, hiringFormula)])

\* Null, or Some([week, cost])
findAmortizedCostMinimum(S, lvl, hiringFormula) ==
  IF growthFactor(lvl) = 0 THEN Null
  ELSE Some(Minimum_scan(S, lvl, hiringFormula, 1, DMaxChart,
              [week |-> 1, cost |-> calculateAmortizedCost(S, 1, lvl, hiringFormula)]))

\* Market data from your observations
INITIAL_HIRING_DATA ==
  (3 :> (6000 :> Some(Money(30000)) @@ 7000 :> Some(Money(10000))
         @@ 8000 :> Some(Money(1000)) @@ 9000 :> Some(Money(1000))
         @@ 10000 :> Some(Money(1000)) @@ 11000 :> Some(Money(1000))
         @@ 12000 :> Some(Money(1000))))
  @@ (4 :> (9000 :> Some(Money(40000)) @@ 10000 :> Some(Money(20000))
            @@ 11000 :> Some(Money(5000)) @@ 12000 :> Some(Money(1000))
            @@ 13000 :> Some(Money(1000)) @@ 14000 :> Some(Money(1000))))

\* the levels at which data still holds the object of INITIAL_HIRING_DATA: an
\* edit replaces the object of its level and leaves the other levels' objects
SharedWith(data) ==
  {l \in DOMAIN INITIAL_HIRING_DATA \cap DOMAIN data :
     data[l] = INITIAL_HIRING_DATA[l]}

\* ------------------------------------------------------------ both copies
Sites == {"script", "chart"}

DMax(s) == IF s = "script" THEN DMaxScript ELSE DMaxChart

\* the Cost Model as the copy `site` evaluates it at one duration
amortizedCostAt(s, hiringCost, sal, lvl, T) ==
  IF s = "script" THEN Script_amortizedCost(hiringCost, sal, lvl, T)
  ELSE Chart_amortizedCost(hiringCost, Chart_maintenanceSum(sal, lvl, T), T)

\* the Duration Optimizer that findHiringCostForTarget of the copy `site` calls
calculateOptimalAmortizedCost(s, hiringCost, sal, lvl) ==
  IF s = "script" THEN Script_calculateOptimalAmortizedCost(hiringCost, sal, lvl)
  ELSE Chart_calculateOptimalAmortizedCost(hiringCost, sal, lvl)

\* ------------------------------------------------------------------ state
VARIABLES
  site,            \* the copy of the code that runs: "script" or "chart"
  level, salary, targetCost,     \* the arguments of findHiringCostForTarget
  low, high, bestHiringCost, bestDuration, iter,   \* its locals
  mid, result,     \* the locals of its last loop pass (NoResult before the first)
  calls,           \* how many times it has called the Duration Optimizer
  trace,           \* history: the midpoints it has evaluated so far, in order,
                   \* each with the optimizer's result at it
  pc,              \* "loop": at the head of the for loop; "test": after line 44;
                   \* "return": at the return statement;
                   \* "done": the caller has emitted the cell
  cell,            \* what the caller emitted for the cell (Pending before)
  hiringData,      \* the reference data of the chart views (useState, line 225)
  optCall,         \* a direct call of a Duration Optimizer: its copy and arguments
  optResult,       \* what that call returned (Pending before it returns)
  marketData,      \* the module's object INITIAL_HIRING_DATA as it is at run time
  sharedLevels     \* the levels whose object in hiringData is the very object
                   \* that marketData holds for the level (not a copy of it)

findVars == <<site, level, salary, targetCost, low, high, bestHiringCost,
              bestDuration, iter, mid, result, calls, trace, pc, cell>>
viewVars == <<marketData, sharedLevels>>
optVars == <<hiringData, optCall, optResult, viewVars>>
vars == <<findVars, optVars>>

NoResult == [cost |-> 0, duration |-> 0]
Pending == [kind |-> "pending"]
EmptyCell == [kind |-> "empty"]

\* ------------------------------------------------- findHiringCostForTarget
\* variant: half the span, the lower bound not added
Midpoint_halfSpan(lo, hi) == (hi - lo) \div 2

\* const mid = (low + high) / 2
Midpoint(lo, hi) == (lo + hi) \div 2

\* variant: the tolerance check without Math.abs
CloseEnough_oneSided(cost, target) == cost - target < Money(Tolerance)

\* Math.abs(result.cost - targetCost) < 1
CloseEnough(cost, target) == Abs(cost - target) < Money(Tolerance)

\* variant: the comparison of line 52 turned around
TooExpensive_flipped(cost, target) == cost < target

\* result.cost > targetCost
TooExpensive(cost, target) == cost > target

\* the head of a loop pass, lines 43-44 / 106-107: the midpoint and the
\* optimizer's result at it
Evaluate ==
  /\ pc = "loop" /\ iter < MaxIter
  /\ mid' = Midpoint(low, high)
  /\ result' = calculateOptimalAmortizedCost(site, Midpoint(low, high), salary, level)
  /\ calls' = calls + 1
  /\ trace' = Append(trace, [mid |-> mid', cost |-> result'.cost,
                             duration |-> result'.duration])
  /\ pc' = "test"
  /\ UNCHANGED <<site, level, salary, targetCost, low, high, bestHiringCost,
                 bestDuration, iter, cell>>
  /\ UNCHANGED optVars

\* variant: the break taken without storing the midpoint and its duration
IterClose_keepsPrevious ==
  /\ pc = "test"
  /\ CloseEnough(result.cost, targetCost)
  /\ pc' = "return"
  /\ UNCHANGED <<site, level, salary, targetCost, low, high, bestHiringCost,
                 bestDuration, iter, mid, result, calls, cell>>
  /\ UNCHANGED <<trace, optVars>>

\* the rest of the pass when it ends in the break of line 49 / 112
IterClose ==
  /\ pc = "test"
  /\ CloseEnough(result.cost, targetCost)
  /\ bestHiringCost' = mid
  /\ bestDuration' = result.duration
  /\ pc' = "return"
  /\ UNCHANGED <<site, level, salary, targetCost, low, high, iter, mid, result,
                 calls, cell>>
  /\ UNCHANGED <<trace, optVars>>

\* variant: a too expensive midpoint becomes the lower bound
IterHigh_raisesLow ==
  /\ pc = "test"
  /\ ~CloseEnough(result.cost, targetCost)
  /\ TooExpensive(result.cost, targetCost)
  /\ low' = mid
  /\ bestHiringCost' = mid
  /\ bestDuration' = result.duration
  /\ iter' = iter + 1
  /\ pc' = "loop"
  /\ UNCHANGED <<site, level, salary, targetCost, high, mid, result, calls, cell>>
  /\ UNCHANGED <<trace, optVars>>

\* the rest of the pass when it narrows the upper bound, lines 52-53 / 115-116
IterHigh ==
  /\ pc = "test"
  /\ ~CloseEnough(result.cost, targetCost)
  /\ TooExpensive(result.cost, targetCost)
  /\ high' = mid
  /\ bestHiringCost' = mid
  /\ bestDuration' = result.duration
  /\ iter' = iter + 1
  /\ pc' = "loop"
  /\ UNCHANGED <<site, level, salary, targetCost, low, mid, result, calls, cell>>
  /\ UNCHANGED <<trace, optVars>>

\* variant: a pass that narrows the lower bound without counting as a pass
IterLow_uncounted ==
  /\ pc = "test"
  /\ ~CloseEnough(result.cost, targetCost)
  /\ ~TooExpensive(result.cost, targetCost)
  /\ low' = mid
  /\ bestHiringCost' = mid
  /\ bestDuration' = result.duration
  /\ pc' = "loop"
  /\ UNCHANGED <<site, level, salary, targetCost, high, iter, mid, result, calls, cell>>
  /\ UNCHANGED <<trace, optVars>>

\* variant: a midpoint that is not too expensive becomes the upper bound
IterLow_lowersHigh ==
  /\ pc = "test"
  /\ ~CloseEnough(result.cost, targetCost)
  /\ ~TooExpensive(result.cost, targetCost)
  /\ high' = mid
  /\ bestHiringCost' = mid
  /\ bestDuration' = result.duration
  /\ iter' = iter + 1
  /\ pc' = "loop"
  /\ UNCHANGED <<site, level, salary, targetCost, low, mid, result, calls, cell>>
  /\ UNCHANGED <<trace, optVars>>

\* the rest of the pass when it narrows the lower bound, lines 54-55 / 117-118
IterLow ==
  /\ pc = "test"
  /\ ~CloseEnough(result.cost, targetCost)
  /\ ~TooExpensive(result.cost, targetCost)
  /\ low' = mid
  /\ bestHiringCost' = mid
  /\ bestDuration' = result.duration
  /\ iter' = iter + 1
  /\ pc' = "loop"
  /\ UNCHANGED <<site, level, salary, targetCost, high, mid, result, calls, cell>>
  /\ UNCHANGED <<trace, optVars>>

\* the loop condition iter < 50 fails: fall through to the return
LoopEnd ==
  /\ pc = "loop" /\ iter >= MaxIter
  /\ pc' = "return"
  /\ UNCHANGED <<site, level, salary, targetCost, low, high, bestHiringCost,
                 bestDuration, iter, mid, result, calls, cell>>
  /\ UNCHANGED <<trace, optVars>>

\* ----------------------------------------------------------------- callers
\* variant: the threshold of the filter at the bracket bound, not 1 above it
IsValidFee_aboveLow(hiringCost) ==
  hiringCost > Money(LowBound) /\ hiringCost <= Money(HighBound)

\* variant: the lower bound itself accepted
IsValidFee_inclusive(hiringCost) ==
  hiringCost >= Money(LowBound) /\ hiringCost <= Money(HighBound)

\* result.hiringCost > 1001 && result.hiringCost <= 1000000
IsValidFee(hiringCost) ==
  hiringCost > Money(NearLow) /\ hiringCost <= Money(HighBound)

\* Math.round of a money amount, in ticks
MathRound(x) == ((2 * x + Frac) \div (2 * Frac)) * Frac

\* variant: no filter, every result is emitted
EmittedCell_unfiltered(s, hiringCost, duration) ==
  [kind |-> "value",
   fee |-> IF s = "script" THEN MathRound(hiringCost) ELSE hiringCost,
   hiringCost |-> hiringCost,
   duration |-> duration]

\* script lines 120-125 and 143-148, chart lines 159-166
EmittedCell(s, hiringCost, duration) ==
  IF IsValidFee(hiringCost)
  THEN [kind |-> "value",
        fee |-> IF s = "script" THEN MathRound(hiringCost) ELSE hiringCost,
        hiringCost |-> hiringCost,
        duration |-> duration]
  ELSE EmptyCell

Emit ==
  /\ pc = "return"
  /\ cell' = EmittedCell(site, bestHiringCost, bestDuration)
  /\ pc' = "done"
  /\ UNCHANGED <<site, level, salary, targetCost, low, high, bestHiringCost,
                 bestDuration, iter, mid, result, calls>>
  /\ UNCHANGED <<trace, optVars>>

\* ------------------------------------------------------------------ inputs
\* Spec runs findHiringCostForTarget and its caller's filter once, on arguments
\* drawn from bounded sets: both copies, the lowest and the highest level of the
\* model, a few salaries, and targets that are reachable, too low, too high, at
\* the ends of the reachable range and within the tolerance of them.
MaxSalaryStep == 1
SalaryChoices == {Money(4000 + 3500 * i) : i \in 0..MaxSalaryStep}
CallLevels == {1, MaxLevel}
FeeChoices == {Money(LowBound), Money(24170), Money(500000), Money(HighBound)}

\* the optimizer's minimal cost at an acquisition cost
optimalCost(s, l, S, h) == calculateOptimalAmortizedCost(s, h, S, l).cost

TargetChoices(s, l, S) ==
  LET atLow == optimalCost(s, l, S, Money(LowBound))
      atHigh == optimalCost(s, l, S, Money(HighBound))
  IN  {Money(3000), Money(10000), Money(200000)}
        \cup {atLow + d : d \in {-Frac - 1, -Frac, 1 - Frac, -1, 0}}
        \cup {atHigh + d : d \in {0, 1, Frac}}
        \cup {optimalCost(s, l, S, c) : c \in FeeChoices}

Init ==
  \E s \in Sites, l \in CallLevels, S \in SalaryChoices :
    \E t \in TargetChoices(s, l, S) :
      /\ site = s /\ level = l /\ salary = S /\ targetCost = t
      /\ low = Money(LowBound)
      /\ high = Money(HighBound)
      /\ bestHiringCost = Money(LowBound)
      /\ bestDuration = 1
      /\ iter = 0
      /\ mid = 0 /\ result = NoResult
      /\ calls = 0
      /\ trace = <<>>
      /\ pc = "loop"
      /\ cell = Pending
      /\ hiringData = INITIAL_HIRING_DATA
      /\ optCall = [copy |-> "none"]
      /\ optResult = Pending
      /\ marketData = INITIAL_HIRING_DATA
      /\ sharedLevels = SharedWith(hiringData)

Next == Evaluate \/ IterClose \/ IterHigh \/ IterLow \/ LoopEnd \/ Emit

Spec == Init /\ [][Next]_vars

\* ------------------------------------------------- the Duration Optimizers
\* SpecOpt calls one Duration Optimizer once, on arguments drawn from bounded
\* sets: the script's and MaxHiringFeeChart's calculateOptimalAmortizedCost on an
\* acquisition cost, and findAmortizedCostMinimum of the other two charts, whose
\* acquisition cost is hiringCost(S, level, hiringFormula) of the reference data.

\* the onChange handler of a reference-data cell, lines 397-406
SetCell(data, l, k, value) ==
  LET old == IF l \in DOMAIN data THEN data[l] ELSE <<>>
  IN  (l :> ((k :> value) @@ old)) @@ data

OptFeeChoices ==
  {0, 1, Money(LowBound), Money(LowBound) + 1, Money(24170), Money(500000),
   Money(HighBound) - 1, Money(HighBound)}

DataChoices ==
  {INITIAL_HIRING_DATA,
   SetCell(INITIAL_HIRING_DATA, 3, 7000, Null),
   SetCell(INITIAL_HIRING_DATA, 3, 4000, Some(Money(90000))),
   SetCell(INITIAL_HIRING_DATA, 1, 4000, Some(0))}

OptCalls ==
  [copy : Sites, hiringCost : OptFeeChoices, salary : SalaryChoices, level : CallLevels]
    \cup [copy : {"minimum"}, salary : SalaryChoices \cup {Money(6500)}, level : Levels]

\* the acquisition cost a call runs on
AcquisitionCost(c, data) ==
  IF c.copy = "minimum"
  THEN Chart_hiringCost(c.salary, c.level, generateHiringFormula(data))
  ELSE c.hiringCost

\* the Cost Model as the called copy evaluates it at duration T
CostAt(c, data, T) ==
  IF c.copy = "minimum"
  THEN calculateAmortizedCost(c.salary, T, c.level, generateHiringFormula(data))
  ELSE amortizedCostAt(c.copy, c.hiringCost, c.salary, c.level, T)

\* a returned "result | null"
Returned(value) == [kind |-> "returned", value |-> value]

InitOpt ==
  /\ site = "none" /\ level = 0 /\ salary = 0 /\ targetCost = 0
  /\ low = 0 /\ high = 0 /\ bestHiringCost = 0 /\ bestDuration = 0
  /\ iter = 0 /\ mid = 0 /\ result = NoResult /\ calls = 0
  /\ trace = <<>>
  /\ pc = "done" /\ cell = Pending
  /\ optCall \in OptCalls
  /\ hiringData \in (IF optCall.copy = "minimum" THEN DataChoices
                      ELSE {INITIAL_HIRING_DATA})
  /\ optResult = Pending
  /\ marketData = INITIAL_HIRING_DATA
  /\ sharedLevels = SharedWith(hiringData)

RunScript ==
  /\ optCall.copy = "script" /\ optResult = Pending
  /\ optResult' = Returned(Some(Script_calculateOptimalAmortizedCost(
                         optCall.hiringCost, optCall.salary, optCall.level)))
  /\ UNCHANGED <<findVars, hiringData, optCall, viewVars>>

RunChart ==
  /\ optCall.copy = "chart" /\ optResult = Pending
  /\ optResult' = Returned(Some(Chart_calculateOptimalAmortizedCost(
                         optCall.hiringCost, optCall.salary, optCall.level)))
  /\ UNCHANGED <<findVars, hiringData, optCall, viewVars>>

RunMinimum ==
  /\ optCall.copy = "minimum" /\ optResult = Pending
  /\ optResult' =
       LET minimum == findAmortizedCostMinimum(optCall.salary, optCall.level,
                                               generateHiringFormula(hiringData))
       IN  IF minimum = Null THEN Returned(Null)
           ELSE Returned(Some([cost |-> ValueOf(minimum).cost,
                               duration |-> ValueOf(minimum).week]))
  /\ UNCHANGED <<findVars, hiringData, optCall, viewVars>>

NextOpt == RunScript \/ RunChart \/ RunMinimum

SpecOpt == InitOpt /\ [][NextOpt]_vars


\* ------------------------------------------------------ the callers' grids
\* SpecGrid runs findHiringCostForTarget and the caller's filter on one cell of
\* the grid the caller loops over: the cells of the script's two table loops
\* (lines 116-154) for a level and a salary spacing given on the command line,
\* and the cells of MaxHiringFeeChart's salaryData for the selected level.

\* getLevelConfig, lines 66-82
baseConfigs ==
  (3 :> [targetCosts |-> <<7000, 8000, 9000, 10000>>,
         salaryMin |-> 4000, salaryMax |-> 8000])
  @@ (4 :> [targetCosts |-> <<9000, 10000, 11000, 12000, 13000, 14000>>,
            salaryMin |-> 7000, salaryMax |-> 11000])
  @@ (5 :> [targetCosts |-> <<14000, 16000, 18000, 20000, 22000, 24000, 26000>>,
            salaryMin |-> 10000, salaryMax |-> 20000])

\* getLevelConfig, lines 65-95
getLevelConfig(lvl, spacing) ==
  LET baseConfig == IF lvl \in DOMAIN baseConfigs THEN baseConfigs[lvl]
                    ELSE baseConfigs[3]
      numSteps == (baseConfig.salaryMax - baseConfig.salaryMin) \div spacing + 1
  IN  [targetCosts |-> baseConfig.targetCosts,
       salaryRange |-> [i \in 1..numSteps |-> baseConfig.salaryMin + (i - 1) * spacing]]

\* MaxHiringFeeChart: targetCosts, lines 134-139
Chart_targetCosts(lvl) ==
  IF lvl = 3 THEN <<7000, 8000, 9000, 10000>>
  ELSE IF lvl = 4 THEN <<9000, 10000, 11000, 12000, 13000, 14000>>
  ELSE IF lvl = 5 THEN <<14000, 16000, 18000, 20000, 22000, 24000, 26000>>
  ELSE <<7000, 8000, 9000, 10000>>

\* MaxHiringFeeChart: salaryRange, lines 145-149
Chart_salaryRange(lvl) ==
  IF lvl = 3 THEN [i \in 1..21 |-> 4000 + (i - 1) * 200]
  ELSE IF lvl = 4 THEN [i \in 1..21 |-> 7000 + (i - 1) * 200]
  ELSE IF lvl = 5 THEN [i \in 1..51 |-> 10000 + (i - 1) * 200]
  ELSE [i \in 1..41 |-> 8000 + (i - 1) * 200]

\* const SPACING = parseInt(process.argv[3]) || 500
DefaultSpacing == 500

\* the cells the model runs: of the script, every cell of every level at the
\* default spacing; of the chart, every column of every ChartRowStride-th row
ChartRowStride == 10
GridLevels == Levels

Range(seq) == {seq[i] : i \in DOMAIN seq}

GridCells(s, l) ==
  IF s = "script"
  THEN LET config == getLevelConfig(l, DefaultSpacing)
       IN  Range(config.salaryRange) \X Range(config.targetCosts)
  ELSE LET salaryRange == Chart_salaryRange(l)
           rows == {i \in DOMAIN salaryRange : (i - 1) % ChartRowStride = 0}
       IN  {salaryRange[i] : i \in rows} \X Range(Chart_targetCosts(l))

InitGrid ==
  \E s \in Sites, l \in GridLevels :
    \E c \in GridCells(s, l) :
      /\ site = s /\ level = l /\ salary = Money(c[1]) /\ targetCost = Money(c[2])
      /\ low = Money(LowBound)
      /\ high = Money(HighBound)
      /\ bestHiringCost = Money(LowBound)
      /\ bestDuration = 1
      /\ iter = 0
      /\ mid = 0 /\ result = NoResult
      /\ calls = 0
      /\ trace = <<>>
      /\ pc = "loop"
      /\ cell = Pending
      /\ hiringData = INITIAL_HIRING_DATA
      /\ optCall = [copy |-> "none"]
      /\ optResult = Pending
      /\ marketData = INITIAL_HIRING_DATA
      /\ sharedLevels = SharedWith(hiringData)

SpecGrid == InitGrid /\ [][Next]_vars

\* ------------------------------------------------------------- properties
\* D_max of the called Duration Optimizer
OptDMax == IF optCall.copy = "script" THEN DMaxScript ELSE DMaxChart

InBracket(h) == Money(LowBound) <= h /\ h <= Money(HighBound)

\* the optimal costs at the two ends of the search bracket, for the arguments
\* of the running findHiringCostForTarget
CostAtLow == optimalCost(site, level, salary, Money(LowBound))
CostAtHigh == optimalCost(site, level, salary, Money(HighBound))

Max(a, b) == IF a >= b THEN a ELSE b

\* two costs less than 1 apart
WithinOne(cost, target) == Abs(cost - target) < Money(Tolerance)

\* C1 (SpecOpt): the cost a Duration Optimizer returns is the Cost Model's value
\* at the returned duration, and no duration in 1..D_max gives a strictly
\* smaller cost.
C1_ReturnedCostIsMinimum ==
  optResult.kind = "returned" =>
    \A r \in optResult.value :
      /\ r.cost = CostAt(optCall, hiringData, r.duration)
      /\ \A d \in 1..OptDMax : CostAt(optCall, hiringData, d) >= r.cost

\* a call of findAmortizedCostMinimum has returned an interior duration whose
\* cost is strictly below the cost of duration 1
C1_Witness ==
  /\ optResult.kind = "returned" /\ optCall.copy = "minimum"
  /\ \E r \in optResult.value :
       /\ 1 < r.duration /\ r.duration < DMaxChart
       /\ CostAt(optCall, hiringData, 1) > r.cost

\* C4 (SpecOpt): among the durations that attain the minimal cost the optimizer
\* returns the smallest: every shorter duration costs strictly more, every
\* longer one at least as much.
C4_TiesKeepSmallestDuration ==
  optResult.kind = "returned" =>
    \A r \in optResult.value :
      /\ \A d \in 1..(r.duration - 1) : CostAt(optCall, hiringData, d) > r.cost
      /\ \A d \in (r.duration + 1)..OptDMax : CostAt(optCall, hiringData, d) >= r.cost

\* a call of the chart's optimizer has returned and a longer duration ties with
\* the returned one
C4_Witness ==
  /\ optResult.kind = "returned" /\ optCall.copy = "chart"
  /\ \E r \in optResult.value :
       \E d \in (r.duration + 1)..OptDMax : CostAt(optCall, hiringData, d) = r.cost

\* C5 (SpecOpt): a Duration Optimizer always returns a result, never null; its
\* duration is in 1..D_max and its cost is not negative.
C5_AlwaysReturnsResult ==
  optResult.kind = "returned" =>
    /\ optResult.value # Null
    /\ \A r \in optResult.value : r.duration \in 1..OptDMax /\ r.cost >= 0

\* findAmortizedCostMinimum has returned a result on edited reference data
C5_Witness ==
  /\ optResult.kind = "returned" /\ optCall.copy = "minimum"
  /\ hiringData # INITIAL_HIRING_DATA
  /\ \E r \in optResult.value : r.duration \in 1..DMaxChart

\* C8 (SpecOpt): for fixed salary and level the optimal cost is non-decreasing
\* in the acquisition cost over the search bracket: the cost returned for
\* h1 is at most the optimal cost of every h2 >= h1.
C8_OptimalCostMonotone ==
  (optResult.kind = "returned" /\ optCall.copy \in Sites) =>
    \A h2 \in OptFeeChoices :
      (InBracket(optCall.hiringCost) /\ InBracket(h2) /\ optCall.hiringCost <= h2) =>
        \A r \in optResult.value :
          r.cost <= optimalCost(optCall.copy, optCall.level, optCall.salary, h2)

\* the script's optimizer has returned the optimal cost of the lower bracket
\* bound, strictly below that of the upper bound
C8_Witness ==
  /\ optResult.kind = "returned" /\ optCall.copy = "script"
  /\ optCall.hiringCost = Money(LowBound)
  /\ \E r \in optResult.value :
       r.cost < optimalCost(optCall.copy, optCall.level, optCall.salary, Money(HighBound))

\* C2 (Spec): when the target lies between the optimal costs of the two bracket
\* bounds, the returned acquisition cost has an optimal cost within 1 of the
\* target, and the search ended through the tolerance check, before the cap.
C2_ReachableTargetMeetsTolerance ==
  (pc = "return" /\ CostAtLow <= targetCost /\ targetCost <= CostAtHigh) =>
    /\ WithinOne(optimalCost(site, level, salary, bestHiringCost), targetCost)
    /\ WithinOne(result.cost, targetCost)
    /\ iter < MaxIter

\* a search for a reachable target is at its return after ten or more passes
C2_Witness ==
  /\ pc = "return" /\ iter >= 10 /\ iter < MaxIter
  /\ CostAtLow < targetCost /\ targetCost < CostAtHigh

\* C3 as stated (Spec): when the target is the optimal cost of an acquisition
\* cost c in the bracket, the returned acquisition cost is within 1 of c.
C3_RoundTripWithinOne ==
  pc = "return" =>
    \A c \in FeeChoices :
      optimalCost(site, level, salary, c) = targetCost =>
        Abs(bestHiringCost - c) <= Money(Tolerance)

\* C3 (Spec): when the target is the optimal cost cost* of an acquisition cost c
\* in the bracket, reached at duration dur*, the returned acquisition cost h has
\* an optimal cost within 1 of cost*, and h is within max(dur*, returned
\* duration) of c: the tolerance is on the cost, and the cost moves by 1/duration
\* per unit of acquisition cost.
C3_RoundTripWithinDuration ==
  pc = "return" =>
    \A c \in FeeChoices :
      \A r \in {calculateOptimalAmortizedCost(site, c, salary, level)} :
        r.cost = targetCost =>
          /\ WithinOne(optimalCost(site, level, salary, bestHiringCost), r.cost)
          /\ Abs(bestHiringCost - c) < Money(Tolerance) * Max(bestDuration, r.duration)

\* a round trip has returned an acquisition cost more than 1 away from c
C3_Witness ==
  /\ pc = "return"
  /\ \E c \in FeeChoices :
       /\ optimalCost(site, level, salary, c) = targetCost
       /\ Abs(bestHiringCost - c) > Money(Tolerance)

\* C6 (Spec): findHiringCostForTarget makes at most 50 passes and calls the
\* Duration Optimizer at most once per pass; from the head of the loop it goes
\* on to the body or to the return, and from the body to the return or, one
\* pass counted, back to the head: it is at its return after at most 50 passes.
C6_ReturnsWithinFiftyPasses ==
  /\ [](iter <= MaxIter /\ calls <= MaxIter /\ calls <= iter + 1)
  /\ [][/\ pc = "loop" => pc' \in {"test", "return"}
        /\ pc = "test" => (pc' = "return" \/ (pc' = "loop" /\ iter' = iter + 1))]_vars

\* a search has run all 50 passes, one optimizer call in each, and is at its
\* return
C6_Witness == pc = "return" /\ iter = MaxIter /\ calls = MaxIter

\* C7 (Spec): the acquisition cost findHiringCostForTarget returns lies in
\* [1000, 1000000], whatever the target.
C7_ReturnedFeeInBracket ==
  pc \in {"return", "done"} => InBracket(bestHiringCost)

\* a search for a target above the optimal cost of the upper bound is at its
\* return, one tick below the upper bound
C7_Witness ==
  /\ pc = "return" /\ targetCost > CostAtHigh
  /\ bestHiringCost = Money(HighBound) - 1

\* C9 as stated (Spec): whenever the target is below the optimal cost of the
\* lower bound, no pass meets the tolerance, every pass narrows the upper
\* bound, the returned acquisition cost is at most 1001 and the caller emits an
\* empty cell.
C9_BelowLowestIsRejected ==
  (pc \in {"return", "done"} /\ targetCost < CostAtLow) =>
    /\ iter = MaxIter
    /\ low = Money(LowBound)
    /\ bestHiringCost <= Money(NearLow)
    /\ (pc = "done" => cell = EmptyCell)

\* C9 (Spec): whenever the target is at least 1 below the optimal cost of the
\* lower bound, no pass meets the tolerance, every pass narrows the upper
\* bound, the returned acquisition cost is at most 1001 and the caller emits an
\* empty cell.
C9_OneBelowLowestIsRejected ==
  (pc \in {"return", "done"} /\ targetCost <= CostAtLow - Money(Tolerance)) =>
    /\ iter = MaxIter
    /\ low = Money(LowBound)
    /\ bestHiringCost <= Money(NearLow)
    /\ (pc = "done" => cell = EmptyCell)

\* the cell of a target exactly 1 below the optimal cost of the lower bound has
\* been emitted empty after 50 passes
C9_Witness ==
  /\ pc = "done" /\ targetCost = CostAtLow - Money(Tolerance)
  /\ iter = MaxIter /\ cell = EmptyCell

\* no acquisition cost in the bracket has an optimal cost within 1 of the
\* target: the target is 1 or more below the optimal cost of the lower bound,
\* or 1 or more above that of the upper bound
NonInvertible ==
  \/ targetCost <= CostAtLow - Money(Tolerance)
  \/ targetCost >= CostAtHigh + Money(Tolerance)

\* C10 as stated (SpecGrid): every non-invertible cell of the callers' grids is
\* emitted empty, and every emitted fee has an optimal cost within 1 of its
\* target.
C10_EmittedFeeWithinOne ==
  pc = "done" =>
    /\ NonInvertible => cell = EmptyCell
    /\ cell.kind = "value" =>
         WithinOne(optimalCost(site, level, salary, cell.fee), targetCost)

\* C10 (SpecGrid): no cell of the callers' grids has a target 1 or more above
\* the optimal cost of the upper bound; every non-invertible cell is emitted
\* empty; every emitted fee is the returned acquisition cost, in the script
\* rounded to a whole unit; the returned acquisition cost has an optimal cost
\* within 1 of the target, and the emitted fee one within 1 and one rounding
\* step of it.
C10_EmittedFeeWithinOneBeforeRounding ==
  pc = "done" =>
    /\ targetCost < CostAtHigh + Money(Tolerance)
    /\ NonInvertible => cell = EmptyCell
    /\ cell.kind = "value" =>
         /\ cell.hiringCost = bestHiringCost
         /\ WithinOne(optimalCost(site, level, salary, cell.hiringCost), targetCost)
         /\ 2 * Abs(cell.fee - cell.hiringCost) <= Frac
         /\ Abs(optimalCost(site, level, salary, cell.fee) - targetCost)
              <= Money(Tolerance)

\* the script has emitted a rounded fee whose optimal cost is exactly 1 away
\* from the target
C10_Witness ==
  /\ pc = "done" /\ site = "script" /\ cell.kind = "value"
  /\ cell.fee # cell.hiringCost
  /\ Abs(optimalCost(site, level, salary, cell.fee) - targetCost) = Money(Tolerance)

\* C11 (Spec): the caller emits a value for a cell exactly when the returned
\* acquisition cost h satisfies 1001 < h <= 1000000, and an empty cell otherwise.
C11_EmittedIffInsideFilter ==
  pc = "done" =>
    /\ cell.kind = "value" <=>
         (bestHiringCost > Money(NearLow) /\ bestHiringCost <= Money(HighBound))
    /\ cell.kind # "value" => cell = EmptyCell

\* a result strictly between 1000 and 1001 has been suppressed
C11_Witness ==
  /\ pc = "done" /\ cell = EmptyCell
  /\ bestHiringCost > Money(LowBound) /\ bestHiringCost <= Money(NearLow)

\* ------------------------------------------------------ the pure functions
\* SpecFn calls one function of one copy of the code once, on arguments drawn
\* from bounded sets: growthFactor of the four files and, below, the Cost Model
\* and the Interpolator.  optCall holds the call, optResult what it returned.

\* the four files that hold a copy of growthFactor: the script,
\* MaxHiringFeeChart ("chart"), AmortizedCostChart and SalaryComparisonChart
Copies == {"script", "chart", "amortized", "comparison"}

\* part_000, lines 11-13
Script_growthFactor(lvl) == 4 + (lvl - 1) * 1

\* variant: the base rate left out, g = (level - 1) * 0.25%
Chart_growthFactor_noBase(lvl) == (lvl - 1) * 1

\* MaxHiringFeeChart.tsx, lines 44-46
Chart_growthFactor(lvl) == 4 + (lvl - 1) * 1

\* AmortizedCostChart.tsx, lines 71-73
Amortized_growthFactor(lvl) == 4 + (lvl - 1) * 1

\* variant: 0.25% per level, counted from level 0
Comparison_growthFactor_fromZero(lvl) == 4 + lvl * 1

\* SalaryComparisonChart.tsx, lines 63-65
Comparison_growthFactor(lvl) == 4 + (lvl - 1) * 1

growthFactorOf(copy, lvl) ==
  IF copy = "script" THEN Script_growthFactor(lvl)
  ELSE IF copy = "chart" THEN Chart_growthFactor(lvl)
  ELSE IF copy = "amortized" THEN Amortized_growthFactor(lvl)
  ELSE Comparison_growthFactor(lvl)

\* the level field of the charts: <input type="number" min="1" max="10">
UiMaxLevel == 10

\* the levels a growthFactor call is run on: the levels of the level field, and
\* the levels down to the one of zero growth, which the script's command line
\* and a typed-in field value can hold
GrowthLevels == ZeroGrowthLevel..UiMaxLevel

GrowthCalls == [fn : {"growthFactor"}, copy : Copies, level : GrowthLevels]

\* a returned number
Value(v) == [kind |-> "value", value |-> v]

CallGrowthFactor ==
  /\ optCall.fn = "growthFactor" /\ optResult = Pending
  /\ optResult' = Value(growthFactorOf(optCall.copy, optCall.level))
  /\ UNCHANGED <<findVars, hiringData, optCall, viewVars>>

\* AmortizedCostChart: chartData, lines 231-257
\* params.maxWeeks of useState, line 222
DefaultMaxWeeks == 52

\* params.startingSalary * Math.pow(1 + g, w), lines 242 and 246
MaintenanceAt(startingSalary, lvl, w) == MulDiv(MathPow(lvl, w), startingSalary, PScale)

\* the loop "for (let w = from; w <= week; w++) cumulativeCost += ..." of lines
\* 241-243, run from the running total cumulativeCost
RECURSIVE CumulativeLoop(_, _, _, _, _)
CumulativeLoop(cumulativeCost, startingSalary, lvl, from, week) ==
  IF from > week THEN cumulativeCost
  ELSE CumulativeLoop(cumulativeCost + MaintenanceAt(startingSalary, lvl, from),
                      startingSalary, lvl, from + 1, week)

chartData(startingSalary, lvl, maxWeeks, hiringFormula) ==
  LET h == Chart_hiringCost(startingSalary, lvl, hiringFormula)
  IN  [week \in 1..maxWeeks |->
         [week |-> week,
          amortizedCost |->
            calculateAmortizedCost(startingSalary, week, lvl, hiringFormula),
          cumulativeCost |-> CumulativeLoop(h, startingSalary, lvl, 0, week),
          weeklyMaintenance |-> MaintenanceAt(startingSalary, lvl, week)]]

\* the levels the Cost Model is run on
CostLevels == Levels \cup {ZeroGrowthLevel}
CostSalaries == SalaryChoices \cup {Money(6500), Money(8000)}
CostDurations == {1, 2, 20, DMaxScript}

ChartDataCalls ==
  [fn : {"chartData"}, startingSalary : {Money(6500), Money(8000)},
   level : CostLevels, maxWeeks : {1, DefaultMaxWeeks}]

\* the Cost Model at one duration: the loop body of the script's optimizer on an
\* acquisition cost, calculateAmortizedCost of AmortizedCostChart on the
\* reference data
CostCalls ==
  [fn : {"amortizedCost"}, copy : {"script"}, hiringCost : OptFeeChoices,
   salary : CostSalaries, level : CostLevels, T : CostDurations]
    \cup [fn : {"amortizedCost"}, copy : {"amortized"},
          salary : CostSalaries, level : CostLevels, T : CostDurations]

\* the Duration Optimizers of the script and of MaxHiringFeeChart at zero growth
ZeroGrowthCalls ==
  [fn : {"optimal"}, copy : Sites, hiringCost : OptFeeChoices,
   salary : CostSalaries, level : {ZeroGrowthLevel}]

ComputeChartData ==
  /\ optCall.fn = "chartData" /\ optResult = Pending
  /\ optResult' = Value(chartData(optCall.startingSalary, optCall.level,
                                  optCall.maxWeeks, generateHiringFormula(hiringData)))
  /\ UNCHANGED <<findVars, hiringData, optCall, viewVars>>

CallAmortizedCost ==
  /\ optCall.fn = "amortizedCost" /\ optResult = Pending
  /\ optResult' =
       IF optCall.copy = "script"
       THEN Value(Script_amortizedCost(optCall.hiringCost, optCall.salary,
                                       optCall.level, optCall.T))
       ELSE Value(calculateAmortizedCost(optCall.salary, optCall.T, optCall.level,
                                         generateHiringFormula(hiringData)))
  /\ UNCHANGED <<findVars, hiringData, optCall, viewVars>>

CallOptimal ==
  /\ optCall.fn = "optimal" /\ optResult = Pending
  /\ optResult' = Value(calculateOptimalAmortizedCost(
                          optCall.copy, optCall.hiringCost, optCall.salary, optCall.level))
  /\ UNCHANGED <<findVars, hiringData, optCall, viewVars>>

\* ------------------------------------------------------- the Interpolator
\* reference data of type HiringCostData that the Interpolator is run on (a
\* cell holds a number, or null for an emptied field): a level with every cell
\* null, a level with one point, with two points whose line goes below zero,
\* and with costs below the floor
ClearLevel(data, l) == (l :> [k \in DOMAIN data[l] |-> Null]) @@ data

OnlyCells(data, l, cells) ==
  (l :> [k \in DOMAIN data[l] |-> IF k \in DOMAIN cells THEN cells[k] ELSE Null])
    @@ data

InterpDataChoices ==
  DataChoices \cup
  {ClearLevel(INITIAL_HIRING_DATA, 3),
   OnlyCells(INITIAL_HIRING_DATA, 3, 9000 :> Some(Money(500))),
   OnlyCells(INITIAL_HIRING_DATA, 3, 9000 :> Some(Money(25000))),
   OnlyCells(INITIAL_HIRING_DATA, 3,
             6000 :> Some(Money(30000)) @@ 7000 :> Some(Money(10000))),
   OnlyCells(INITIAL_HIRING_DATA, 4,
             9000 :> Some(Money(200)) @@ 11000 :> Some(Money(900))
               @@ 13000 :> Some(Money(5001))),
   SetCell(INITIAL_HIRING_DATA, 4, 11000, Some(Money(-3000)))}

InterpSalaries ==
  {Money(s) : s \in {0, 3000, 5000, 6000, 6250, 6500, 7000, 8000, 9000, 9500,
                     10000, 12000, 13000, 15000}}

InterpCalls ==
  [fn : {"hiringCost", "interpolateHiringCost"}, salary : InterpSalaries,
   level : Levels]

\* the points hiringCost passes on for a level; none when the level has no entry
PointsFor(lvl, formula) == IF lvl \in DOMAIN formula THEN formula[lvl] ELSE <<>>

CallHiringCost ==
  /\ optCall.fn = "hiringCost" /\ optResult = Pending
  /\ optResult' = Value(Chart_hiringCost(optCall.salary, optCall.level,
                                         generateHiringFormula(hiringData)))
  /\ UNCHANGED <<findVars, hiringData, optCall, viewVars>>

CallInterpolate ==
  /\ optCall.fn = "interpolateHiringCost" /\ optResult = Pending
  /\ optResult' = Value(interpolateHiringCost(optCall.salary,
                          PointsFor(optCall.level, generateHiringFormula(hiringData))))
  /\ UNCHANGED <<findVars, hiringData, optCall, viewVars>>

\* point lists handed to the Interpolator in any order: the samples of a level
\* as a caller other than generateHiringFormula may list them
Point(units, cost) == [salary |-> Money(units), cost |-> Money(cost)]

SampleSets ==
  {{},
   {Point(9000, 25000)},
   {Point(9000, 200), Point(11000, 900)},
   {Point(6000, 30000), Point(7000, 10000), Point(8000, 1000)},
   {Point(9000, 40000), Point(10000, 20000), Point(11000, 5000),
    Point(12000, 1000)}}

\* the lists that hold each point of the set samples once
Orderings(samples) ==
  {list \in [1..Cardinality(samples) -> samples] :
     \A i, j \in DOMAIN list : list[i] = list[j] => i = j}

PointLists == UNION {Orderings(samples) : samples \in SampleSets}

OnPointsCalls ==
  [fn : {"onPoints"}, via : {"interpolateHiringCost", "hiringCost"},
   salary : InterpSalaries, points : PointLists]

\* the caller's array after interpolateHiringCost has run on it: lines 98-99
\* return before the sort of line 102
PointsAfter(points) ==
  IF Len(points) <= 1 THEN points ELSE SpreadSort(points).points

\* what a call through `via` returns on the list points: hiringCost reads the
\* list from formula.parameters[level].points
AnswerOn(via, startingSalary, points) ==
  IF via = "hiringCost"
  THEN Some(Chart_hiringCost(startingSalary, 1, 1 :> points))
  ELSE interpolateHiringCost(startingSalary, points)

\* a call on a point list: the value returned and the list after the call
CallOnPoints ==
  /\ optCall.fn = "onPoints" /\ optResult = Pending
  /\ optResult' = [kind |-> "value",
                   value |-> AnswerOn(optCall.via, optCall.salary, optCall.points),
                   points |-> PointsAfter(optCall.points)]
  /\ UNCHANGED <<findVars, hiringData, optCall, viewVars>>

\* variant: the early exit of lines 46-50 without "bestDuration =
\* result.duration", so that the duration of the pass before is returned
RECURSIVE Bisect_staleDuration(_, _, _, _, _, _, _, _)
Bisect_staleDuration(s, target, S, l, lo, hi, best, it) ==
  IF it >= MaxIter THEN best
  ELSE LET m == Midpoint(lo, hi)
           r == calculateOptimalAmortizedCost(s, m, S, l)
           found == [hiringCost |-> m, duration |-> r.duration]
       IN  IF CloseEnough(r.cost, target)
           THEN [hiringCost |-> m, duration |-> best.duration]
           ELSE IF TooExpensive(r.cost, target)
           THEN Bisect_staleDuration(s, target, S, l, lo, m, found, it + 1)
           ELSE Bisect_staleDuration(s, target, S, l, m, hi, found, it + 1)

\* findHiringCostForTarget of the copy s as a function: the loop of lines
\* 42-60 / 105-123 from the pass iter on, as the actions Evaluate, IterClose,
\* IterHigh, IterLow and LoopEnd run it
RECURSIVE Bisect(_, _, _, _, _, _, _, _)
Bisect(s, target, S, l, lo, hi, best, it) ==
  IF it >= MaxIter THEN best
  ELSE LET m == Midpoint(lo, hi)
           r == calculateOptimalAmortizedCost(s, m, S, l)
           found == [hiringCost |-> m, duration |-> r.duration]
       IN  IF CloseEnough(r.cost, target) THEN found
           ELSE IF TooExpensive(r.cost, target)
           THEN Bisect(s, target, S, l, lo, m, found, it + 1)
           ELSE Bisect(s, target, S, l, m, hi, found, it + 1)

findHiringCostForTarget(s, target, S, l) ==
  Bisect(s, target, S, l, Money(LowBound), Money(HighBound),
         [hiringCost |-> Money(LowBound), duration |-> 1], 0)

\* calls of both copies of findHiringCostForTarget on the same arguments, among
\* them a salary below the callers' grids
FindCalls ==
  [fn : {"findHiringCostForTarget"}, copy : Sites,
   targetCost : {Money(6000), Money(8000), Money(10000)},
   salary : {Money(1000), Money(4000)}, level : CallLevels]

CallFind ==
  /\ optCall.fn = "findHiringCostForTarget" /\ optResult = Pending
  /\ optResult' = Value(findHiringCostForTarget(optCall.copy, optCall.targetCost,
                                                optCall.salary, optCall.level))
  /\ UNCHANGED <<findVars, hiringData, optCall, viewVars>>

FnCalls == GrowthCalls \cup ChartDataCalls \cup CostCalls \cup ZeroGrowthCalls
             \cup InterpCalls \cup OnPointsCalls \cup FindCalls

InitFn ==
  /\ site = "none" /\ level = 0 /\ salary = 0 /\ targetCost = 0
  /\ low = 0 /\ high = 0 /\ bestHiringCost = 0 /\ bestDuration = 0
  /\ iter = 0 /\ mid = 0 /\ result = NoResult /\ calls = 0
  /\ trace = <<>>
  /\ pc = "done" /\ cell = Pending
  /\ optCall \in FnCalls
  /\ hiringData \in (IF optCall.fn \in {"hiringCost", "interpolateHiringCost"}
                      THEN InterpDataChoices
                      ELSE IF \/ optCall.fn = "chartData"
                              \/ optCall.fn = "amortizedCost" /\ optCall.copy = "amortized"
                      THEN DataChoices
                      ELSE {INITIAL_HIRING_DATA})
  /\ optResult = Pending
  /\ marketData = INITIAL_HIRING_DATA
  /\ sharedLevels = SharedWith(hiringData)

NextFn ==
  \/ CallGrowthFactor
  \/ ComputeChartData
  \/ CallAmortizedCost
  \/ CallOptimal
  \/ CallHiringCost
  \/ CallInterpolate
  \/ CallOnPoints
  \/ CallFind

SpecFn == InitFn /\ [][NextFn]_vars

SumSlack(S, lvl, T) ==
  ((T + 1) * GDen * S) \div (growthFactor(lvl) * PScale)
    + GDen \div growthFactor(lvl) + T + 2

\* C14 (SpecFn): at every week T of chartData for a level >= 1, amortizedCost is
\* the closed form (h + S * ((1+g)^(T+1) - 1) / g) / T, cumulativeCost is the
\* explicit sum h + sum over w = 0..T of S * (1+g)^w, and T * amortizedCost
\* equals cumulativeCost up to the rounding of the powers (less than one
\* hundredth of a salary per week).
C14_ClosedFormEqualsExplicitSum ==
  (optCall.fn = "chartData" /\ optResult # Pending /\ optCall.level >= 1) =>
    \A T \in DOMAIN optResult.value :
      LET point == optResult.value[T]
          h == Chart_hiringCost(optCall.startingSalary, optCall.level,
                                generateHiringFormula(hiringData))
      IN  /\ point.week = T
          /\ point.amortizedCost =
               Chart_amortizedCost(h, Chart_maintenanceSum(optCall.startingSalary,
                                                           optCall.level, T), T)
          /\ point.cumulativeCost =
               CumulativeLoop(h, optCall.startingSalary, optCall.level, 0, T)
          /\ point.cumulativeCost - T * point.amortizedCost > -(T + 1)
          /\ point.cumulativeCost - T * point.amortizedCost
               < SumSlack(optCall.startingSalary, optCall.level, T)
          /\ SumSlack(optCall.startingSalary, optCall.level, T) * 100
               < (T + 1) * optCall.startingSalary + 100 * (T + 103)

\* chartData has returned its default 52 weeks for a level above 1
C14_Witness ==
  /\ optCall.fn = "chartData" /\ optResult # Pending
  /\ optCall.level > 1 /\ optCall.maxWeeks = DefaultMaxWeeks
  /\ optResult.value[DefaultMaxWeeks].cumulativeCost
       > DefaultMaxWeeks * optCall.startingSalary

\* the acquisition cost an "amortizedCost" call of the Cost Model runs on
CostCallFee(c, data) ==
  IF c.copy = "script" THEN c.hiringCost
  ELSE Chart_hiringCost(c.salary, c.level, generateHiringFormula(data))

\* the Cost Model of the called copy with the acquisition cost taken from the
\* fee h2 (script) or from the reference data data2 (AmortizedCostChart)
CostCallWith(c, h2, data2) ==
  IF c.copy = "script" THEN Script_amortizedCost(h2, c.salary, c.level, c.T)
  ELSE calculateAmortizedCost(c.salary, c.T, c.level, generateHiringFormula(data2))

\* C15 (SpecFn): for a level >= 1 the Cost Model returns a finite cost that is
\* not negative and not below acquisitionCost / T, and with the same salary,
\* duration and level it returns no less for any acquisition cost that is no
\* smaller, and no more for any that is no greater.
C15_CostNonNegativeAndMonotone ==
  (optCall.fn = "amortizedCost" /\ optResult # Pending /\ optCall.level >= 1) =>
    /\ optResult.value >= 0 /\ optResult.value < Infinity
    /\ optResult.value >= CostCallFee(optCall, hiringData) \div optCall.T
    /\ \A h2 \in OptFeeChoices, data2 \in DataChoices :
         LET fee == CostCallFee(optCall, hiringData)
             fee2 == IF optCall.copy = "script" THEN h2
                     ELSE CostCallFee(optCall, data2)
             cost2 == CostCallWith(optCall, h2, data2)
         IN  /\ fee2 >= fee => cost2 >= optResult.value
             /\ fee2 <= fee => cost2 <= optResult.value

\* AmortizedCostChart's Cost Model has returned a cost for reference data that
\* give a smaller acquisition cost than the initial data, and a smaller cost
C15_Witness ==
  /\ optCall.fn = "amortizedCost" /\ optCall.copy = "amortized"
  /\ optCall.level >= 1 /\ optResult # Pending
  /\ CostCallFee(optCall, hiringData) < CostCallFee(optCall, INITIAL_HIRING_DATA)
  /\ optResult.value < CostCallWith(optCall, 0, INITIAL_HIRING_DATA)

\* C16, as stated: at a growth rate of exactly 0 every copy of the cost
\* computation returns the finite cost (h + salary * (duration + 1)) / duration:
\* the Cost Model of the script and of AmortizedCostChart at each duration, and
\* the Duration Optimizers of the script and of MaxHiringFeeChart at the
\* duration they return.
C16_ZeroGrowthIsFiniteEverywhere ==
  (optResult # Pending /\ optCall.fn \in {"amortizedCost", "optimal"}
     /\ growthFactor(optCall.level) = 0) =>
    IF optCall.fn = "amortizedCost"
    THEN /\ optResult.value < Infinity
         /\ optResult.value =
              (CostCallFee(optCall, hiringData) + optCall.salary * (optCall.T + 1))
                \div optCall.T
    ELSE /\ optResult.value.cost < Infinity
         /\ optResult.value.cost =
              (optCall.hiringCost + optCall.salary * (optResult.value.duration + 1))
                \div optResult.value.duration

\* the script's Duration Optimizer has returned the cost Infinity at zero growth
C16_Witness ==
  /\ optCall.fn = "optimal" /\ optCall.copy = "script"
  /\ growthFactor(optCall.level) = 0
  /\ optResult = Value([cost |-> Infinity, duration |-> 1])

\* what interpolateHiringCost returns for the call held in optCall
Interpolated ==
  interpolateHiringCost(optCall.salary,
                        PointsFor(optCall.level, generateHiringFormula(hiringData)))

\* C17 (SpecFn): for every salary, level and reference data (no points, one
\* point, many points, costs below 1000, lines that extrapolate below zero)
\* hiringCost returns at least 1000: the interpolated value where that is
\* above 1000, and exactly 1000 otherwise.
C17_HiringCostAtLeastFloor ==
  (optCall.fn = "hiringCost" /\ optResult # Pending) =>
    /\ optResult.value >= Money(MinHiringCost)
    /\ (Interpolated # Null /\ ValueOf(Interpolated) > Money(MinHiringCost))
         => optResult.value = ValueOf(Interpolated)
    /\ (Interpolated = Null \/ ValueOf(Interpolated) <= Money(MinHiringCost))
         => optResult.value = Money(MinHiringCost)

\* hiringCost has returned 1000 where the line through the points is below zero
C17_Witness ==
  /\ optCall.fn = "hiringCost" /\ optResult = Value(Money(MinHiringCost))
  /\ Len(PointsFor(optCall.level, generateHiringFormula(hiringData))) >= 2
  /\ Interpolated # Null /\ ValueOf(Interpolated) < 0

\* the level of the call held in optCall has no reference data: it is missing
\* from hiringData, or every one of its salary cells is null
NoReferenceData ==
  \/ optCall.level \notin DOMAIN hiringData
  \/ \A k \in DOMAIN hiringData[optCall.level] : hiringData[optCall.level][k] = Null

\* C18 (SpecFn): for a level that has no reference data hiringCost returns
\* exactly 1000 at every salary; interpolateHiringCost on its empty list of
\* points returns null, not an error.
C18_NoDataFallsBackToFloor ==
  (optResult # Pending /\ optCall.fn \in {"hiringCost", "interpolateHiringCost"}
     /\ NoReferenceData) =>
    /\ optCall.level \notin DOMAIN generateHiringFormula(hiringData)
    /\ optCall.fn = "hiringCost" => optResult = Value(Money(MinHiringCost))
    /\ optCall.fn = "interpolateHiringCost" => optResult = Value(Null)

\* hiringCost has returned for a level whose cells have all been cleared
C18_Witness ==
  /\ optCall.fn = "hiringCost" /\ optResult # Pending
  /\ optCall.level \in DOMAIN hiringData /\ NoReferenceData
  /\ optResult.value = Money(MinHiringCost)

\* the points of the called level whose salary is the called salary
MatchingPoints ==
  LET points == PointsFor(optCall.level, generateHiringFormula(hiringData))
  IN  {points[i] : i \in {j \in 1..Len(points) : points[j].salary = optCall.salary}}

\* C19, as stated: at a salary equal to that of a reference point, the
\* estimated acquisition cost returned, by interpolateHiringCost and by
\* hiringCost, is exactly that point's cost.
C19_ExactMatchReturnsPointCost ==
  (optResult # Pending /\ optCall.fn \in {"hiringCost", "interpolateHiringCost"}) =>
    \A p \in MatchingPoints :
      IF optCall.fn = "hiringCost" THEN optResult.value = p.cost
      ELSE optResult.value = Some(p.cost)

\* C19 (SpecFn): at a salary equal to that of a reference point,
\* interpolateHiringCost returns exactly that point's cost, and hiringCost
\* returns that cost when it is at least 1000 and 1000 when it is less.
C19_ExactMatchReturnsFlooredPointCost ==
  (optResult # Pending /\ optCall.fn \in {"hiringCost", "interpolateHiringCost"}) =>
    \A p \in MatchingPoints :
      IF optCall.fn = "hiringCost"
      THEN optResult.value = Max(p.cost, Money(MinHiringCost))
      ELSE optResult.value = Some(p.cost)

\* hiringCost has returned 1000 at the salary of a point that costs less, one
\* of several points of its level
C19_Witness ==
  /\ optCall.fn = "hiringCost" /\ optResult = Value(Money(MinHiringCost))
  /\ Len(PointsFor(optCall.level, generateHiringFormula(hiringData))) >= 2
  /\ \E p \in MatchingPoints : p.cost < Money(MinHiringCost)

\* the pairs <<p1, p2>> of neighbouring points of the called level, in salary
\* order, that have the called salary strictly between them
BracketingPairs ==
  LET points == PointsFor(optCall.level, generateHiringFormula(hiringData))
  IN  {<<points[i], points[i + 1]>> : i \in {j \in 1..(Len(points) - 1) :
         /\ points[j].salary < optCall.salary
         /\ optCall.salary < points[j + 1].salary}}

\* the most by which a rounded-down ratio times the cost difference, itself
\* rounded down, can differ from the exact product, in ticks
RatioSlack(p1, p2) == Abs(p2.cost - p1.cost) \div PScale + 2

\* C20 (SpecFn): at a salary s strictly between two neighbouring samples
\* (s1, c1) and (s2, c2), interpolateHiringCost returns
\* c1 + (s - s1) / (s2 - s1) * (c2 - c1) up to the rounding of the ratio, a value
\* between c1 and c2; at s = (s1 + s2) / 2 that is (c1 + c2) / 2.
C20_LinearBetweenSamples ==
  (optCall.fn = "interpolateHiringCost" /\ optResult # Pending) =>
    \A pair \in BracketingPairs :
      LET p1 == pair[1]
          p2 == pair[2]
          span == p2.salary - p1.salary
          returned == ValueOf(optResult.value)
      IN  /\ optResult.value # Null
          /\ Abs((returned - p1.cost) * span
                   - (optCall.salary - p1.salary) * (p2.cost - p1.cost))
               <= RatioSlack(p1, p2) * span
          /\ returned >= (IF p1.cost <= p2.cost THEN p1.cost ELSE p2.cost)
          /\ returned <= Max(p1.cost, p2.cost)
          /\ 2 * optCall.salary = p1.salary + p2.salary =>
               Abs(2 * returned - (p1.cost + p2.cost)) <= 2 * RatioSlack(p1, p2)

\* interpolateHiringCost has returned for a salary half way between two
\* samples of different cost
C20_Witness ==
  /\ optCall.fn = "interpolateHiringCost" /\ optResult # Pending
  /\ \E pair \in BracketingPairs :
       /\ 2 * optCall.salary = pair[1].salary + pair[2].salary
       /\ pair[1].cost # pair[2].cost
       /\ 2 * ValueOf(optResult.value) = pair[1].cost + pair[2].cost

\* the points of the called level, in salary order
CalledPoints == PointsFor(optCall.level, generateHiringFormula(hiringData))

\* the value at the called salary on the straight line through p1 and p2,
\* measured from the point p0 of that line, rounded down to a tick
OnLine(p0, p1, p2) ==
  p0.cost + SignedMulDiv(p2.cost - p1.cost, optCall.salary - p0.salary,
                         p2.salary - p1.salary)

\* the most by which a rounded-down slope times a salary difference, itself
\* rounded down, can differ from the exact product, in ticks
SlopeSlack(p0) == Abs(optCall.salary - p0.salary) \div PScale + 2

\* C21 (SpecFn): with at least two samples, for a salary below the lowest
\* sample interpolateHiringCost returns the value on the straight line through
\* the two samples of lowest salary, and for a salary above the highest sample
\* the value on the straight line through the two samples of highest salary,
\* up to the rounding of the slope.
C21_ExtrapolatesAlongEndSegments ==
  (optCall.fn = "interpolateHiringCost" /\ optResult # Pending
     /\ Len(CalledPoints) >= 2) =>
    LET n == Len(CalledPoints)
        first == CalledPoints[1]
        last == CalledPoints[n]
    IN  /\ optCall.salary < first.salary =>
             /\ optResult.value # Null
             /\ Abs(ValueOf(optResult.value) - OnLine(first, first, CalledPoints[2]))
                  <= SlopeSlack(first)
        /\ optCall.salary > last.salary =>
             /\ optResult.value # Null
             /\ Abs(ValueOf(optResult.value) - OnLine(last, CalledPoints[n - 1], last))
                  <= SlopeSlack(last)

\* interpolateHiringCost has returned a value above the lowest sample's cost for
\* a salary below the lowest of several samples of falling cost
C21_Witness ==
  /\ optCall.fn = "interpolateHiringCost" /\ optResult # Pending
  /\ Len(CalledPoints) >= 3
  /\ optCall.salary < CalledPoints[1].salary
  /\ CalledPoints[2].cost < CalledPoints[1].cost
  /\ ValueOf(optResult.value) > CalledPoints[1].cost

\* C22 (SpecFn): for every salary and every list of points of distinct
\* salaries, interpolateHiringCost, and hiringCost on top of it, return for
\* every other order of the list what they returned for the order they were
\* called on.
C22_OrderOfPointsIrrelevant ==
  (optCall.fn = "onPoints" /\ optResult # Pending) =>
    \A other \in PointLists :
      (\A i \in DOMAIN other : \E j \in DOMAIN optCall.points :
          other[i] = optCall.points[j]) /\ Len(other) = Len(optCall.points)
        => AnswerOn(optCall.via, optCall.salary, other) = optResult.value

\* interpolateHiringCost has interpolated between two samples of a list of
\* three or more that is not in salary order
C22_Witness ==
  /\ optCall.fn = "onPoints" /\ optCall.via = "interpolateHiringCost"
  /\ optResult # Pending /\ Len(optCall.points) >= 3
  /\ optCall.points[1].salary > optCall.points[2].salary
  /\ \E i, j \in DOMAIN optCall.points :
       /\ optCall.points[i].salary < optCall.salary
       /\ optCall.salary < optCall.points[j].salary
  /\ optResult.value # Null
  /\ \A i \in DOMAIN optCall.points : Some(optCall.points[i].cost) # optResult.value

\* C23 (SpecFn): after a call of interpolateHiringCost, or of hiringCost on top
\* of it, the point list passed in holds the same points in the same order as
\* before the call.
C23_PointListUnchangedByCall ==
  (optCall.fn = "onPoints" /\ optResult # Pending) =>
    /\ Len(optResult.points) = Len(optCall.points)
    /\ \A i \in DOMAIN optCall.points : optResult.points[i] = optCall.points[i]

\* a call has sorted a list of three or more points that came in out of salary
\* order, and returned a value off every sample
C23_Witness ==
  /\ optCall.fn = "onPoints" /\ optResult # Pending /\ Len(optCall.points) >= 3
  /\ \E i \in 1..(Len(optCall.points) - 1) :
       optCall.points[i].salary > optCall.points[i + 1].salary
  /\ optResult.value # Null
  /\ optResult.value = interpolateHiringCost(optCall.salary,
                                             SortBySalary(optCall.points))
  /\ \A i \in DOMAIN optCall.points : Some(optCall.points[i].cost) # optResult.value

\* ------------------------------------------------- the reference-data editor
\* SpecEdit runs the edit dialog of a chart view: any sequence of cell edits
\* and of "Reset to Market Data".  optCall holds the last event and the
\* reference data it found.

\* variant: the cell written into the level's object itself,
\* prev[level][salary] = value, before the state is copied
OnCellChange_inPlace(prev, market, shared, l, k, value) ==
  [hiringData |-> SetCell(prev, l, k, value),
   marketData |-> IF l \in shared THEN SetCell(market, l, k, value) ELSE market,
   sharedLevels |-> shared]

\* the onChange handler of a cell, lines 397-406: setHiringData(prev =>
\* ({...prev, [level]: {...prev[level], [salary]: value}})) builds a new state
\* and a new object for the level, and writes into neither prev nor its levels
OnCellChange(prev, market, shared, l, k, value) ==
  [hiringData |-> SetCell(prev, l, k, value),
   marketData |-> market,
   sharedLevels |-> shared \ {l}]

\* the cells of the dialog that the model edits (the dialog lists levels 3, 4
\* and, behind "Show Levels 5-7", 5 to 7, each with its salaryRange), and the
\* values typed into them: an emptied field, 0, and 90000
EditCells == {<<3, 4000>>, <<3, 7000>>, <<4, 11000>>, <<5, 10000>>}
EditValues == {Null, Some(0), Some(Money(90000))}

InitEdit ==
  /\ site = "none" /\ level = 0 /\ salary = 0 /\ targetCost = 0
  /\ low = 0 /\ high = 0 /\ bestHiringCost = 0 /\ bestDuration = 0
  /\ iter = 0 /\ mid = 0 /\ result = NoResult /\ calls = 0
  /\ trace = <<>>
  /\ pc = "done" /\ cell = Pending
  /\ hiringData = INITIAL_HIRING_DATA
  /\ optCall = [fn |-> "open"]
  /\ optResult = Pending
  /\ marketData = INITIAL_HIRING_DATA
  /\ sharedLevels = DOMAIN INITIAL_HIRING_DATA

EditCell ==
  \E c \in EditCells, value \in EditValues :
    LET after == OnCellChange(hiringData, marketData, sharedLevels,
                              c[1], c[2], value)
    IN  /\ hiringData' = after.hiringData
        /\ marketData' = after.marketData
        /\ sharedLevels' = after.sharedLevels
        /\ optCall' = [fn |-> "edit", prev |-> hiringData]
        /\ UNCHANGED <<findVars, optResult>>

\* onClick={() => setHiringData(INITIAL_HIRING_DATA)}, line 341
ResetToMarketData ==
  /\ hiringData' = marketData
  /\ sharedLevels' = DOMAIN marketData
  /\ optCall' = [fn |-> "reset", prev |-> hiringData]
  /\ UNCHANGED <<findVars, optResult, marketData>>

NextEdit == EditCell \/ ResetToMarketData

SpecEdit == InitEdit /\ [][NextEdit]_vars

\* the levels the views can show: those of the model and the first level of
\* "Show Levels 5-7"
ViewLevels == Levels \cup {5}

\* C24 (SpecEdit): whatever cells have been set or cleared, the object
\* INITIAL_HIRING_DATA still holds the hardcoded data, and right after "Reset
\* to Market Data" the reference data are exactly the hardcoded data and
\* hiringCost is, at every salary and level, what it is on the hardcoded data.
C24_ResetRestoresMarketData ==
  /\ marketData = INITIAL_HIRING_DATA
  /\ optCall.fn = "reset" =>
       /\ hiringData = INITIAL_HIRING_DATA
       /\ \A s \in InterpSalaries, l \in ViewLevels :
            Chart_hiringCost(s, l, generateHiringFormula(hiringData))
              = Chart_hiringCost(s, l, generateHiringFormula(INITIAL_HIRING_DATA))

\* a reset has replaced reference data that differed from the hardcoded data
\* at levels 3 and 4 and held a level the hardcoded data do not have
C24_Witness ==
  /\ optCall.fn = "reset" /\ hiringData = INITIAL_HIRING_DATA
  /\ 5 \in DOMAIN optCall.prev
  /\ optCall.prev[3] # INITIAL_HIRING_DATA[3]
  /\ optCall.prev[4] # INITIAL_HIRING_DATA[4]

\* the copy of findHiringCostForTarget other than s
OtherSite(s) == IF s = "script" THEN "chart" ELSE "script"

\* C25, as stated: on the same target cost, salary and level the script's
\* findHiringCostForTarget and MaxHiringFeeChart's return the same pair
\* (hiringCost, duration), so the same cells are valid.
C25_ScriptReplicatesChart ==
  (optCall.fn = "findHiringCostForTarget" /\ optResult # Pending) =>
    LET other == findHiringCostForTarget(OtherSite(optCall.copy), optCall.targetCost,
                                         optCall.salary, optCall.level)
    IN  /\ optResult.value = other
        /\ IsValidFee(optResult.value.hiringCost) <=> IsValidFee(other.hiringCost)

\* the script has returned a valid fee at its longest duration where the chart
\* returns a valid fee at a longer one
C25_Witness ==
  /\ optCall.fn = "findHiringCostForTarget" /\ optCall.copy = "script"
  /\ optResult # Pending
  /\ optResult.value.duration = DMaxScript
  /\ IsValidFee(optResult.value.hiringCost)
  /\ LET other == findHiringCostForTarget("chart", optCall.targetCost,
                                          optCall.salary, optCall.level)
     IN  other.duration > DMaxScript /\ IsValidFee(other.hiringCost)

\* C26 (SpecOpt): for a salary > 0, a level >= 1 and an acquisition cost >= 0
\* every Duration Optimizer returns a minimal cost strictly greater than the
\* salary, and the Cost Model is strictly greater than the salary at every
\* duration of the optimizer's range.
C26_MinimalCostAboveSalary ==
  (optResult # Pending /\ optResult.value # Null) =>
    /\ optCall.salary > 0 /\ optCall.level >= 1
    /\ AcquisitionCost(optCall, hiringData) >= 0
    /\ ValueOf(optResult.value).cost > optCall.salary
    /\ \A T \in 1..OptDMax : CostAt(optCall, hiringData, T) > optCall.salary

\* the script's optimizer has returned for an acquisition cost of 0: a duration
\* above 1 and a cost between the salary and twice the salary
C26_Witness ==
  /\ optCall.copy = "script" /\ optResult # Pending
  /\ optCall.hiringCost = 0
  /\ ValueOf(optResult.value).duration > 1
  /\ ValueOf(optResult.value).cost > optCall.salary
  /\ ValueOf(optResult.value).cost < 2 * optCall.salary

\* target costs above t: one tick and one unit above, inside the tolerance of
\* t, and a target of the next grid line
HigherTargets(t) == {t + 1, t + Money(1), t + Money(1000)}

\* C27 (SpecFn): for the same salary and level, findHiringCostForTarget returns
\* for a higher target cost a fee and a duration that are no smaller; so they
\* are for any two targets whose cells are both valid.
C27_FeeAndDurationRiseWithTarget ==
  (optCall.fn = "findHiringCostForTarget" /\ optResult # Pending) =>
    \A t2 \in HigherTargets(optCall.targetCost) :
      LET higher == findHiringCostForTarget(optCall.copy, t2, optCall.salary,
                                            optCall.level)
      IN  /\ optResult.value.hiringCost <= higher.hiringCost
          /\ optResult.value.duration <= higher.duration

\* a valid cell whose fee and duration are both below those of the valid cell
\* of a target 1000 higher
C27_Witness ==
  /\ optCall.fn = "findHiringCostForTarget" /\ optResult # Pending
  /\ IsValidFee(optResult.value.hiringCost)
  /\ LET higher == findHiringCostForTarget(optCall.copy,
                     optCall.targetCost + Money(1000), optCall.salary, optCall.level)
     IN  /\ IsValidFee(higher.hiringCost)
         /\ optResult.value.hiringCost < higher.hiringCost
         /\ optResult.value.duration < higher.duration

\* how far a cost is from the target of the search
Distance(cost) == Abs(cost - targetCost)

\* C28 (Spec): when findHiringCostForTarget returns, the acquisition cost it
\* returns is the midpoint it evaluated last, and the optimal cost of that
\* midpoint is at least as close to the target as the optimal cost of every
\* other midpoint it evaluated.
C28_ReturnedMidpointIsClosest ==
  pc \in {"return", "done"} =>
    /\ Len(trace) >= 1
    /\ bestHiringCost = trace[Len(trace)].mid
    /\ \A i \in DOMAIN trace :
         Distance(trace[Len(trace)].cost) <= Distance(trace[i].cost)

\* a search has returned through the tolerance check after passes that moved
\* the upper bound and passes that moved the lower bound
C28_Witness ==
  /\ pc = "return" /\ Len(trace) >= 4
  /\ Distance(trace[Len(trace)].cost) < Money(Tolerance)
  /\ \E i \in DOMAIN trace : trace[i].cost > targetCost + Money(Tolerance)
  /\ \E i \in DOMAIN trace : trace[i].cost < targetCost - Money(Tolerance)

\* a loop pass that does not leave through the break: from the tests of lines
\* 46-56 / 109-119 back to the head of the loop
NarrowingPass == pc = "test" /\ pc' = "loop"

\* the two halves of a span measured in ticks: the midpoint is kept to the
\* tick, so an odd span splits into halves one tick apart
HalvesOf(span) == {span \div 2, span - span \div 2}

\* the target lay between the optimal costs of the two ends of the bracket when
\* the search started
BracketedAtStart == CostAtLow <= targetCost /\ targetCost <= CostAtHigh

\* C29 (Spec): a pass of findHiringCostForTarget that does not exit early moves
\* exactly one bound to the midpoint, the upper bound when the optimizer's cost
\* at the midpoint exceeds the target and the lower bound otherwise, and leaves
\* the other bound alone; no other step changes a bound. In every state
\* 1000 <= low <= high <= 1000000, each such pass halves high - low (to the
\* tick), and a target that lay between the optimal costs of the two bounds at
\* the start lies between them at the head of every pass.
C29_OneBoundMovesToMidpoint ==
  /\ [](/\ Money(LowBound) <= low /\ low <= high /\ high <= Money(HighBound)
        /\ pc = "test" => mid = Midpoint(low, high)
        /\ (pc = "loop" /\ BracketedAtStart) =>
             /\ optimalCost(site, level, salary, low) <= targetCost
             /\ targetCost <= optimalCost(site, level, salary, high))
  /\ [][/\ NarrowingPass =>
             /\ result.cost > targetCost => (high' = mid /\ low' = low)
             /\ ~(result.cost > targetCost) => (low' = mid /\ high' = high)
             /\ high' - low' \in HalvesOf(high - low)
        /\ ~NarrowingPass => (low' = low /\ high' = high)]_vars

\* a search has narrowed each bound at least once and the bounds are still more
\* than a unit apart
C29_Witness ==
  /\ pc = "loop" /\ iter >= 2
  /\ Money(LowBound) < low /\ high < Money(HighBound)
  /\ high - low > Money(1)
  /\ BracketedAtStart

\* the midpoint findHiringCostForTarget evaluated last
LastEvaluated == trace[Len(trace)]

\* C30 (Spec): findHiringCostForTarget never evaluates a midpoint after one
\* whose optimal cost is within 1 of the target, and when it returns it has
\* evaluated at least one midpoint and returns the midpoint evaluated last
\* together with the Duration Optimizer's duration for it, never the pair
\* (1000, 1) its two result variables start with.
C30_ReturnsLastMidpointAndItsDuration ==
  /\ \A i \in 1..(Len(trace) - 1) : ~CloseEnough(trace[i].cost, targetCost)
  /\ pc \in {"return", "done"} =>
       /\ Len(trace) >= 1
       /\ bestHiringCost = LastEvaluated.mid
       /\ bestDuration = LastEvaluated.duration
       /\ bestDuration =
            calculateOptimalAmortizedCost(site, bestHiringCost, salary, level).duration
       /\ <<bestHiringCost, bestDuration>> # <<Money(LowBound), 1>>
       /\ (iter < MaxIter) = CloseEnough(LastEvaluated.cost, targetCost)

\* a search has left through the break after several passes, at a midpoint
\* strictly inside the bracket
C30_Witness ==
  /\ pc = "return" /\ iter < MaxIter /\ Len(trace) = iter + 1 /\ iter >= 3
  /\ CloseEnough(LastEvaluated.cost, targetCost)
  /\ bestHiringCost = mid /\ bestDuration = result.duration
  /\ bestHiringCost > Money(NearLow) /\ bestDuration > 1

=====
